---- MODULE Spec2Model ----
(***************************************************************************)
(* A model of the embeddings client of supavec/supabase-ai                 *)
(* (src/src/embeddings/EmbeddingsClient.ts): store and search as state     *)
(* machines over the provider and the backing store, whose calls and       *)
(* answers are recorded in logs (Spec); the constructor of SupabaseAI,     *)
(* src/src/embeddings/utils.ts (SpecAI); and two calls running             *)
(* concurrently on one client (SpecConc).                                  *)
(*                                                                         *)
(* JavaScript values are encoded as follows.                               *)
(*   - an optional value (a property that may be missing, undefined or     *)
(*     null) is a set: {} when missing, {v} when present;                  *)
(*   - an object is a function from its keys to its values, so that        *)
(*     "k in obj" is k \in DOMAIN obj;                                     *)
(*   - an embedding vector is a record [of |-> text, n |-> position];      *)
(*   - a message built by a template literal is the pair prefix, detail.   *)
(***************************************************************************)
EXTENDS Integers, Sequences, FiniteSets

VARIABLES
    defaultTable,     \* this.defaultTable
    defaultThreshold, \* this.defaultThreshold
    op,               \* which operation the call in progress is: "none", "store", "search"
    pc,               \* position of the call in progress
    data,             \* store: the data argument
    query,            \* search: the query argument
    options,          \* the options argument of the call in progress
    table,            \* the resolved table of the call in progress
    processedData,    \* store: the local processedData
    idx,              \* store: number of items of data already consumed by the for-of loop
    i,                \* store: the insert loop's variable i
    uuidCount,        \* number of values crypto.randomUUID() has handed out
    idCalls,          \* per item of data, whether generateId() was invoked for it
    providerLog,      \* the inputs of the provider calls issued, in order
    insertLog,        \* the insert calls issued, in order, each with its answer
    rpcLog,           \* the remote similarity calls issued, in order
    results,          \* search: the sequence returned
    resultSrc,        \* search: for each result, the position of its row in the remote answer
    outcome,          \* how the call ended: {} while running, else {result}
    aiOptions,        \* SupabaseAI: this.options, {} before the constructor runs
    embeddingsConfig, \* SupabaseAI: this.embeddingsConfig
    aiProvider,       \* SupabaseAI: the provider createProvider() made
    aiEmbeddings,     \* SupabaseAI: the config this.embeddings was constructed with
    aiOutcome,        \* SupabaseAI: how the constructor ended
    configRead,       \* SupabaseAI: what getEmbeddingsConfig() returned last
    calls,            \* concurrent calls: for each, its arguments, locals, calls issued and outcome
    math,             \* a call of a vector function or of similarity: arguments, provider call, outcome
    openai            \* an OpenAIProvider and its createEmbedding call: fields, remote calls, outcome

\* the state of the vector functions and of the network-backed provider
libVars == <<math, openai>>

\* the state of a SupabaseAI
aiVars == <<aiOptions, embeddingsConfig, aiProvider, aiEmbeddings, aiOutcome, configRead>>

vars == <<defaultTable, defaultThreshold, op, pc, data, query, options, table,
          processedData, idx, i, uuidCount, idCalls, providerLog, insertLog,
          rpcLog, results, resultSrc, outcome, aiVars, calls, libVars>>

\* what search reads and writes besides the client's fields
searchVars == <<query, rpcLog, results, resultSrc>>
\* what store reads and writes besides the client's fields
storeVars == <<data, processedData, idx, i, uuidCount, idCalls, insertLog>>

(***************************************************************************)
(* Bounds of the model.                                                    *)
(***************************************************************************)
\* the longest data argument of store
MaxDocs == 3
\* the largest batchSize option tried
MaxBatch == 2
\* the insert loop of store does not end for a batchSize <= 0: the log keeps
\* the first insert calls, this many (always more than a call with a positive
\* batchSize needs), and the model stops following the loop once i is this
\* far below 0
MaxInserts == MaxDocs + 2
\* the most rows a remote similarity call answers with
MaxRows == 3
\* the longest vector handed to a vector function
MaxDim == 2

(***************************************************************************)
(* JavaScript helpers.                                                     *)
(***************************************************************************)
Absent == {}
Some(v) == {v}
Get(o) == CHOOSE v \in o : TRUE

\* a ?? b
Nullish(o, d) == IF o = Absent THEN d ELSE Get(o)

\* ToBoolean of a string: the empty string is falsy
Truthy(s) == s # ""

\* obj.k as an optional value
Prop(obj, k) == IF k \in DOMAIN obj THEN Some(obj[k]) ELSE Absent

\* ToIntegerOrInfinity-relative index of Array.prototype.slice
RelIndex(k, len) == IF k < 0 THEN (IF len + k < 0 THEN 0 ELSE len + k)
                    ELSE (IF k < len THEN k ELSE len)

\* Array.prototype.slice(start, end), indices counted from 0
Slice(s, start, end) ==
    LET from == RelIndex(start, Len(s))
        to   == RelIndex(end, Len(s))
    IN  IF from < to THEN SubSeq(s, from + 1, to) ELSE <<>>

(***************************************************************************)
(* The inputs tried.                                                       *)
(***************************************************************************)
\* the value of an absent metadata at record assembly: {}
EmptyMap == "{}"

\* StoreInput values: StoreData and LangChainDocument shapes, with and
\* without id and metadata; an id may be the empty string; a StoreData may
\* carry further fields ([key: string]: any), one of them named embedding,
\* and so may an object with a pageContent, a content field among them
StoreInputs ==
    { [content |-> "c1"],
      [content |-> "c2", id |-> "a", metadata |-> "m1", user_id |-> "u2"],
      [content |-> "c3", id |-> ""],
      [pageContent |-> "p4", metadata |-> "m2"],
      [pageContent |-> "p5", id |-> "b", content |-> "c5", source |-> "s5"],
      [content |-> "c6", embedding |-> [of |-> "stale", n |-> 1]] }

RECURSIVE SeqsUpTo(_, _)
SeqsUpTo(S, n) ==
    IF n = 0 THEN {<<>>}
    ELSE LET shorter == SeqsUpTo(S, n - 1)
         IN  shorter \cup {Append(s, x) : s \in {t \in shorter : Len(t) = n - 1}, x \in S}

DataArgs == SeqsUpTo(StoreInputs, MaxDocs)

\* the EmbeddingsClientConfig values tried: table and threshold missing,
\* empty and zero, or given (thresholds in hundredths)
Configs ==
    { [table |-> Absent, threshold |-> Absent],
      [table |-> Some(""), threshold |-> Some(0)],
      [table |-> Some("docs"), threshold |-> Some(50)] }

\* options.table: missing, empty, or a name
OptionTables == {Absent, Some(""), Some("custom")}
BatchSizes == {Absent} \cup {Some(b) : b \in -1..MaxBatch}
GenerateIdOptions == {Absent, Some(TRUE), Some(FALSE)}

\* an options argument with no property set
NoOptions ==
    [table |-> Absent, batchSize |-> Absent, generateId |-> Absent,
     threshold |-> Absent, limit |-> Absent, rpc |-> Absent, filters |-> Absent,
     metadata |-> Absent, select |-> Absent, orderBy |-> Absent,
     includeDistance |-> Absent]

StoreOptions ==
    { [NoOptions EXCEPT !.table = t, !.batchSize = b, !.generateId = g] :
        t \in OptionTables, b \in BatchSizes, g \in GenerateIdOptions }

\* a select string is the sequence of its pieces: field names, "," and " ".
\* "", "id, content", "id content", "id,similarity,created_at",
\* " created_at , nope"
SelectStrings ==
    { <<>>,
      <<"id", ",", " ", "content">>,
      <<"id", " ", "content">>,
      <<"id", ",", "similarity", ",", "created_at">>,
      <<" ", "created_at", " ", ",", " ", "nope">> }

\* the options of search that shape the rpc call, and those that shape the result
SearchParamOptions ==
    { [NoOptions EXCEPT !.table = t, !.threshold = th, !.limit = l, !.rpc = r,
                        !.filters = f, !.metadata = m] :
        t \in OptionTables, th \in {Absent, Some(0), Some(90)},
        l \in {Absent, Some(5)}, r \in {Absent, Some("custom_match")},
        f \in {Absent, Some("f1")}, m \in {Absent, Some("mf1")} }

SearchShapeOptions ==
    { [NoOptions EXCEPT !.table = t, !.select = s, !.orderBy = o, !.includeDistance = d] :
        t \in {Absent, Some("")},
        s \in {Absent} \cup {Some(x) : x \in SelectStrings},
        o \in {Absent, Some("similarity"), Some("created_at"), Some("rank")},
        d \in {Absent, Some(TRUE), Some(FALSE)} }

SearchOptions == SearchParamOptions \cup SearchShapeOptions

Queries == {"q"}

\* rows a remote similarity call may return: with and without similarity and
\* created_at (numbers), two of them with the same created_at; none has a rank
RemoteRows ==
    { [id |-> "1", content |-> "x", similarity |-> 90, created_at |-> 2],
      [id |-> "2", content |-> "y", similarity |-> 70, created_at |-> 1],
      [id |-> "3", content |-> "z", created_at |-> 2],
      [id |-> "4", content |-> "w", similarity |-> 50] }

\* what a remote similarity call may answer: {data, error: null} with rows or
\* with null, {data: null, error: {message}}, or a rejection
RpcAnswers ==
    { [kind |-> "data", rows |-> r] : r \in SeqsUpTo(RemoteRows, MaxRows) }
    \cup { [kind |-> "null", rows |-> <<>>],
           [kind |-> "error", rows |-> <<>>],
           [kind |-> "throws", rows |-> <<>>] }

RpcErrorMessage == "RPC function not found"
RpcThrownMessage == "Network error"

\* crypto.randomUUID(): the k-th value handed out; all differ
UUIDs == <<"u1", "u2", "u3", "u4", "u5", "u6", "u7", "u8">>

\* no vector function and no similarity has been called
NoMath ==
    [op |-> "none", pc |-> "idle", a |-> <<>>, b |-> <<>>, texts |-> <<>>,
     provided |-> <<>>, outcome |-> Absent]

\* no OpenAIProvider has been constructed
NoOpenAI ==
    [pc |-> "none", model |-> "", dimensions |-> 0, remote |-> <<>>, outcome |-> Absent]

\* the calls that run concurrently on one client
Calls == {"A", "B"}

\* a call not yet made: no arguments, empty locals, nothing issued
IdleCall ==
    [op |-> "none", pc |-> "idle", data |-> <<>>, query |-> "", options |-> NoOptions,
     table |-> "", processedData |-> <<>>, idx |-> 0, i |-> 0, provided |-> <<>>,
     inserts |-> <<>>, rpcs |-> <<>>, results |-> <<>>, resultSrc |-> <<>>,
     outcome |-> Absent]

(***************************************************************************)
(* Errors (src/src/client.ts 135-168): the class, and the message as       *)
(* prefix and detail.                                                      *)
(***************************************************************************)
TableRequired == "Table name is required"

ValidationError ==
    [kind |-> "ValidationError", prefix |-> TableRequired,
     detail |-> ". Provide either options.table or set defaultTable in constructor."]

DatabaseError(prefix, detail) ==
    [kind |-> "DatabaseError", prefix |-> prefix, detail |-> detail]

\* any other thrown value
PlainError(message) == [kind |-> "Error", prefix |-> "", detail |-> message]

\* what a provider call may throw: the network-backed provider throws an
\* EmbeddingProviderError, a caller-supplied function anything
ProviderFailures ==
    { [kind |-> "EmbeddingProviderError", prefix |-> "OpenAI embedding error: ", detail |-> "boom"],
      PlainError("Provider error") }

\* what an insert call may answer: {error: null}, {error: {message}}, or a rejection
InsertAnswers ==
    { [kind |-> "ok", message |-> ""], [kind |-> "error", message |-> "db down"],
      [kind |-> "throws", message |-> "network"] }

Returned == [kind |-> "returned"]
Threw(e) == [kind |-> "threw", error |-> e]

(***************************************************************************)
(* The provider: one vector per input string, in order; the test double    *)
(* returns two vectors whatever the input, so a single string is answered  *)
(* by two vectors here too.                                                *)
(***************************************************************************)
Vec(text, n) == [of |-> text, n |-> n]
ProviderAnswer(text) == <<Vec(text, 1), Vec(text, 2)>>

\* a provider call with a single string as its input
SingleInput(text) == [shape |-> "string", texts |-> <<text>>]

(***************************************************************************)
(* EmbeddingsClient                                                        *)
(***************************************************************************)
\* constructor: this.defaultTable = config.table ?? "documents"
ConstructTable(config) == Nullish(config.table, "documents")

\* constructor: this.defaultThreshold = config.threshold ?? 0.8 (in hundredths)
ConstructThreshold(config) == Nullish(config.threshold, 80)

\* mutant: options?.table || this.defaultTable
ResolveTable_Falsy(opts, dflt) ==
    IF opts.table # Absent /\ Truthy(Get(opts.table)) THEN Get(opts.table) ELSE dflt

\* options?.table ?? this.defaultTable
ResolveTable(opts, dflt) == Nullish(opts.table, dflt)

\* mutant: {...item, content: item.pageContent} without the pageContent
normalizeStoreInput_Spread(item) ==
    IF "pageContent" \in DOMAIN item
    THEN [k \in (DOMAIN item \ {"pageContent"}) \cup {"content"} |->
             IF k = "content" THEN item.pageContent ELSE item[k]]
    ELSE item

\* normalizeStoreInput
normalizeStoreInput(item) ==
    IF "pageContent" \in DOMAIN item
    THEN LET keep == {"content"}
                     \cup {k \in {"metadata", "id"} : k \in DOMAIN item /\ Truthy(item[k])}
         IN  [k \in keep |-> IF k = "content" THEN item.pageContent ELSE item[k]]
    ELSE item

\* options?.batchSize ?? 100
batchSizeOf(opts) == Nullish(opts.batchSize, 100)

\* options?.generateId === true
generateIdsOf(opts) == opts.generateId = Some(TRUE)

\* mutant: one value for every call
generateId_Constant(count) == UUIDs[1]

\* generateId(): the next value of crypto.randomUUID()
generateId(count) == UUIDs[count + 1]

\* whether store takes the id of the normalized item: if (normalizedItem.id)
HasId(n) == "id" \in DOMAIN n /\ Truthy(n.id)

\* whether store invokes generateId() for the normalized item
NeedsGeneratedId(n, generateIds) == ~HasId(n) /\ generateIds

\* mutant: the id key is always written, empty when there is no id
AssembleRecord_AlwaysId(n, embeddings, generateIds, count) ==
    LET pass == DOMAIN n \ {"content", "metadata", "id"}
        keys == {"content", "embedding", "metadata", "id"} \cup pass
    IN  [k \in keys |->
            CASE k = "id" -> (IF "id" \in DOMAIN n /\ Truthy(n.id) THEN n.id
                              ELSE IF generateIds THEN UUIDs[count + 1] ELSE "")
              [] k = "content" -> n.content
              [] k = "embedding" -> embeddings[1]
              [] k = "metadata" -> Nullish(Prop(n, "metadata"), EmptyMap)
              [] OTHER -> n[k]]

\* the record store assembles from a normalized item and the provider's answer
\* (lines 68-84): content, embedding, metadata, then the passthrough fields,
\* then the id
AssembleRecord(n, embeddings, generateIds, count) ==
    LET pass == DOMAIN n \ {"content", "metadata", "id"}
        base == [content   |-> n.content,
                 embedding |-> embeddings[1],
                 metadata  |-> Nullish(Prop(n, "metadata"), EmptyMap)]
        withId == HasId(n) \/ generateIds
        keys == {"content", "embedding", "metadata"} \cup pass
                \cup (IF withId THEN {"id"} ELSE {})
    IN  [k \in keys |->
            IF k = "id" THEN (IF HasId(n) THEN n.id ELSE generateId(count))
            ELSE IF k \in pass THEN n[k]
            ELSE base[k]]

\* mutant: the slice ends one record too far
Batch_Overlapping(records, from, batchSize) == Slice(records, from, from + batchSize + 1)

\* processedData.slice(i, i + batchSize)
Batch(records, from, batchSize) == Slice(records, from, from + batchSize)

(***************************************************************************)
(* Initial state: a constructed client, no call in progress.               *)
(***************************************************************************)
Init ==
    /\ \E config \in Configs :
        /\ defaultTable = ConstructTable(config)
        /\ defaultThreshold = ConstructThreshold(config)
    /\ op = "none"
    /\ pc = "idle"
    /\ data = <<>>
    /\ query = ""
    /\ options = NoOptions
    /\ table = ""
    /\ processedData = <<>>
    /\ idx = 0
    /\ i = 0
    /\ uuidCount = 0
    /\ idCalls = <<>>
    /\ providerLog = <<>>
    /\ insertLog = <<>>
    /\ rpcLog = <<>>
    /\ results = <<>>
    /\ resultSrc = <<>>
    /\ outcome = Absent
    /\ aiOptions = Absent
    /\ embeddingsConfig = Absent
    /\ aiProvider = Absent
    /\ aiEmbeddings = Absent
    /\ aiOutcome = Absent
    /\ configRead = Absent
    /\ calls = [c \in Calls |-> IdleCall]
    /\ math = NoMath
    /\ openai = NoOpenAI

client == <<defaultTable, defaultThreshold>>

(***************************************************************************)
(* store(data, options)                                                    *)
(***************************************************************************)
\* mutant: the loop ends one item early
AfterItem_SkipsLast(k, n) == IF k + 1 < n THEN "embed" ELSE "insert"

\* where the for-of loop goes after item number k of n: to the next item, or
\* to the insert loop (line 89)
AfterItem(k, n) == IF k < n THEN "embed" ELSE "insert"

\* lines 48-60: resolve the table, throw without one, set up the locals
StoreCall ==
    /\ pc = "idle"
    /\ \E d \in DataArgs, o \in StoreOptions :
        /\ op' = "store"
        /\ data' = d
        /\ options' = o
        /\ table' = ResolveTable(o, defaultTable)
        /\ idCalls' = [k \in 1..Len(d) |-> FALSE]
        /\ IF ~Truthy(ResolveTable(o, defaultTable))
           THEN /\ pc' = "failed"
                /\ outcome' = Some(Threw(ValidationError))
           ELSE /\ pc' = AfterItem(0, Len(d))
                /\ outcome' = Absent
    /\ UNCHANGED <<libVars, aiVars, calls, client, searchVars, processedData, idx, i, uuidCount,
                   providerLog, insertLog>>

\* mutant: the provider is called for every remaining item at once
StoreEmbedCall_FanOut ==
    /\ op = "store" /\ pc = "embed"
    /\ providerLog' = providerLog \o
           [k \in 1..(Len(data) - idx) |->
               SingleInput(normalizeStoreInput(data[idx + k]).content)]
    /\ pc' = "embedWait"
    /\ UNCHANGED <<libVars, aiVars, calls, client, searchVars, storeVars, op, options, table, outcome>>

\* lines 62-66: the next item is normalized and the provider is called with its content
StoreEmbedCall ==
    /\ op = "store" /\ pc = "embed"
    /\ providerLog' = Append(providerLog,
                             SingleInput(normalizeStoreInput(data[idx + 1]).content))
    /\ pc' = "embedWait"
    /\ UNCHANGED <<libVars, aiVars, calls, client, searchVars, storeVars, op, options, table, outcome>>

\* lines 66-87: the provider answers; the record is assembled and pushed
StoreEmbedReturn ==
    /\ op = "store" /\ pc = "embedWait"
    /\ LET n == normalizeStoreInput(data[idx + 1])
           generateIds == generateIdsOf(options)
           gen == NeedsGeneratedId(n, generateIds)
       IN  /\ processedData' = Append(processedData,
                  AssembleRecord(n, ProviderAnswer(n.content), generateIds, uuidCount))
           /\ uuidCount' = IF gen THEN uuidCount + 1 ELSE uuidCount
           /\ idCalls' = [idCalls EXCEPT ![idx + 1] = gen]
    /\ idx' = idx + 1
    /\ pc' = AfterItem(idx + 1, Len(data))
    /\ UNCHANGED <<libVars, aiVars, calls, client, searchVars, op, data, options, table, i, providerLog,
                   insertLog, outcome>>

\* mutant: a failed provider call is swallowed and its item skipped
StoreEmbedThrow_SkipsItem ==
    /\ op = "store" /\ pc = "embedWait"
    /\ idx' = idx + 1
    /\ pc' = AfterItem(idx + 1, Len(data))
    /\ UNCHANGED <<libVars, aiVars, calls, client, searchVars, op, data, options, table, processedData,
                   i, uuidCount, idCalls, providerLog, insertLog, outcome>>

\* line 66: the provider call throws; store rejects with what it threw
StoreEmbedThrow ==
    /\ op = "store" /\ pc = "embedWait"
    /\ \E e \in ProviderFailures : outcome' = Some(Threw(e))
    /\ pc' = "failed"
    /\ UNCHANGED <<libVars, aiVars, calls, client, searchVars, storeVars, op, options, table, providerLog>>

\* mutant: i <= processedData.length
InsertLoopRuns_Inclusive(from, records) == from <= Len(records)

\* line 89: the loop test i < processedData.length
InsertLoopRuns(from, records) == from < Len(records)

\* lines 89-92: the loop test holds; the batch is sliced and its insert issued
StoreInsertCall ==
    /\ op = "store" /\ pc = "insert"
    /\ InsertLoopRuns(i, processedData)
    /\ i > -MaxInserts
    /\ insertLog' = IF Len(insertLog) < MaxInserts
                    THEN Append(insertLog,
                             [table |-> table,
                              rows |-> Batch(processedData, i, batchSizeOf(options)),
                              answer |-> "pending"])
                    ELSE insertLog
    /\ pc' = "insertWait"
    /\ UNCHANGED <<libVars, aiVars, calls, client, searchVars, op, data, options, table, processedData,
                   idx, i, uuidCount, idCalls, providerLog, outcome>>

\* line 89: the loop test fails; store returns
StoreFinish ==
    /\ op = "store" /\ pc = "insert"
    /\ ~InsertLoopRuns(i, processedData)
    /\ pc' = "done"
    /\ outcome' = Some(Returned)
    /\ UNCHANGED <<libVars, aiVars, calls, client, searchVars, storeVars, op, options, table, providerLog>>

\* the error store throws for an insert that answered {error}
InsertFailure(message) == DatabaseError("Failed to store embeddings: ", message)

\* mutant: the error field of the answer is not looked at
AfterInsert_IgnoresError(answer, from, batchSize) ==
    IF answer.kind = "throws"
    THEN [i |-> from, pc |-> "failed", outcome |-> Some(Threw(PlainError(answer.message)))]
    ELSE [i |-> from + batchSize, pc |-> "insert", outcome |-> Absent]

\* lines 92-100: how store goes on after an insert's answer: the next value
\* of i, the next position, the outcome
AfterInsert(answer, from, batchSize) ==
    CASE answer.kind = "ok" ->
            [i |-> from + batchSize, pc |-> "insert", outcome |-> Absent]
      [] answer.kind = "error" ->
            [i |-> from, pc |-> "failed",
             outcome |-> Some(Threw(InsertFailure(answer.message)))]
      [] answer.kind = "throws" ->
            [i |-> from, pc |-> "failed",
             outcome |-> Some(Threw(PlainError(answer.message)))]

\* lines 92-100: the insert answers
StoreInsertReturn ==
    /\ op = "store" /\ pc = "insertWait"
    /\ \E a \in InsertAnswers :
        LET next == AfterInsert(a, i, batchSizeOf(options))
        IN  /\ insertLog' = [insertLog EXCEPT ![Len(insertLog)].answer = a.kind]
            /\ i' = next.i
            /\ pc' = next.pc
            /\ outcome' = next.outcome
    /\ UNCHANGED <<libVars, aiVars, calls, client, searchVars, op, data, options, table, processedData,
                   idx, uuidCount, idCalls, providerLog>>

(***************************************************************************)
(* search(query, options)                                                  *)
(***************************************************************************)
\* lines 113-130: the name and the parameters of the remote call
rpcFunctionOf(opts) == Nullish(opts.rpc, "match_documents")

\* mutant: options?.threshold || this.defaultThreshold
rpcParamsOf_FalsyThreshold(opts, queryEmbedding, dfltThreshold, tbl) ==
    LET keys == {"query_embedding", "match_threshold", "match_count", "table_name"}
                \cup (IF opts.filters # Absent THEN {"filters"} ELSE {})
                \cup (IF opts.metadata # Absent THEN {"metadata_filter"} ELSE {})
    IN  [k \in keys |->
            CASE k = "query_embedding" -> queryEmbedding[1]
              [] k = "match_threshold" ->
                    (IF opts.threshold # Absent /\ Get(opts.threshold) # 0
                     THEN Get(opts.threshold) ELSE dfltThreshold)
              [] k = "match_count" -> Nullish(opts.limit, 10)
              [] k = "table_name" -> tbl
              [] k = "filters" -> Get(opts.filters)
              [] k = "metadata_filter" -> Get(opts.metadata)]

rpcParamsOf(opts, queryEmbedding, dfltThreshold, tbl) ==
    LET keys == {"query_embedding", "match_threshold", "match_count", "table_name"}
                \cup (IF opts.filters # Absent THEN {"filters"} ELSE {})
                \cup (IF opts.metadata # Absent THEN {"metadata_filter"} ELSE {})
    IN  [k \in keys |->
            CASE k = "query_embedding" -> queryEmbedding[1]
              [] k = "match_threshold" -> Nullish(opts.threshold, dfltThreshold)
              [] k = "match_count" -> Nullish(opts.limit, 10)
              [] k = "table_name" -> tbl
              [] k = "filters" -> Get(opts.filters)
              [] k = "metadata_filter" -> Get(opts.metadata)]

\* String.prototype.split(","): the pieces between the commas
RECURSIVE SplitComma(_)
SplitComma(s) ==
    IF \A k \in 1..Len(s) : s[k] # ","
    THEN <<s>>
    ELSE LET c == CHOOSE k \in 1..Len(s) : s[k] = "," /\ \A j \in 1..(k - 1) : s[j] # ","
         IN  <<SubSeq(s, 1, c - 1)>> \o SplitComma(SubSeq(s, c + 1, Len(s)))

\* String.prototype.trim()
RECURSIVE Trim(_)
Trim(s) ==
    IF s = <<>> THEN s
    ELSE IF Head(s) = " " THEN Trim(Tail(s))
    ELSE IF s[Len(s)] = " " THEN Trim(SubSeq(s, 1, Len(s) - 1))
    ELSE s

\* mutant: the pieces are not trimmed
selectFieldsOf_NoTrim(select) == SplitComma(select)

\* line 142: options.select.split(",").map((f) => f.trim())
selectFieldsOf(select) ==
    LET pieces == SplitComma(select)
    IN  [k \in 1..Len(pieces) |-> Trim(pieces[k])]

\* lines 143-151: the listed fields the item has, with the item's values
Project(item, selectFields) ==
    [k \in {key \in DOMAIN item : \E j \in 1..Len(selectFields) : selectFields[j] = <<key>>}
        |-> item[k]]

\* line 141: if (options?.select): a missing and an empty select do nothing
Selects(opts) == opts.select # Absent /\ Get(opts.select) # <<>>

\* a > b on two property values: false when either is undefined
Gt(a, b) == a # Absent /\ b # Absent /\ Get(a) > Get(b)

\* mutant: the comparator's answers exchanged
Compare_Descending(a, b, orderBy) == IF Gt(Prop(a, orderBy), Prop(b, orderBy)) THEN -1 ELSE 1

\* lines 155-159: the comparator handed to sort
Compare(a, b, orderBy) == IF Gt(Prop(a, orderBy), Prop(b, orderBy)) THEN 1 ELSE -1

\* mutant: every orderBy sorts, 'similarity' too
Sorts_AnyOrderBy(opts) == opts.orderBy # Absent /\ Truthy(Get(opts.orderBy))

\* line 154: if (options?.orderBy && options.orderBy !== "similarity")
Sorts(opts) ==
    opts.orderBy # Absent /\ Truthy(Get(opts.orderBy)) /\ Get(opts.orderBy) # "similarity"

Orders(n) == {p \in [1..n -> 1..n] : \A a, b \in 1..n : p[a] = p[b] => a = b}

\* Array.prototype.sort with this comparator. The comparator never answers 0,
\* so it is not a consistent comparator and the order is the engine's choice
\* among the orders its answers allow: x is placed right before y only when
\* it answered that x goes before y, or that y does not go before x.
SortOutcomes(entries, orderBy) ==
    LET n == Len(entries)
        before(x, y) == Compare(x, y, orderBy) < 0 \/ Compare(y, x, orderBy) >= 0
    IN  { [k \in 1..n |-> entries[p[k]]] :
            p \in {q \in Orders(n) :
                     \A k \in 1..(n - 1) : before(entries[q[k]].row, entries[q[k + 1]].row)} }

\* lines 163-166: {...item, similarity: item.similarity ?? 0}
WithSimilarity(item) ==
    [k \in DOMAIN item \cup {"similarity"} |->
        IF k = "similarity" THEN Nullish(Prop(item, "similarity"), 0) ELSE item[k]]

\* line 162: if (options?.includeDistance)
IncludesDistance(opts) == opts.includeDistance = Some(TRUE)

\* lines 139-152: the rows, each with its position in the answer, projected
Selected(rows, opts) ==
    [k \in 1..Len(rows) |->
        [src |-> k,
         row |-> IF Selects(opts) THEN Project(rows[k], selectFieldsOf(Get(opts.select)))
                 ELSE rows[k]]]

\* lines 154-160: the sequences the sort may leave
Ordered(entries, opts) ==
    IF Sorts(opts) THEN SortOutcomes(entries, Get(opts.orderBy)) ELSE {entries}

\* lines 162-167
Distanced(entries, opts) ==
    [k \in 1..Len(entries) |->
        [src |-> entries[k].src,
         row |-> IF IncludesDistance(opts) THEN WithSimilarity(entries[k].row)
                 ELSE entries[k].row]]

\* mutant: every error caught is wrapped
SearchCatch_AlwaysWraps(error) == DatabaseError("Search operation failed: ", error.detail)

\* lines 170-178: the catch block of search
SearchCatch(error) ==
    IF error.kind = "DatabaseError" THEN error
    ELSE DatabaseError("Search operation failed: ", error.detail)

\* line 136: the error thrown for an answer with an error field
SearchFailure(message) == DatabaseError("Search failed: ", message)

\* lines 103-112: resolve the table, throw without one, call the provider
\* with the query
SearchCall ==
    /\ pc = "idle"
    /\ \E q \in Queries, o \in SearchOptions :
        /\ op' = "search"
        /\ query' = q
        /\ options' = o
        /\ table' = ResolveTable(o, defaultTable)
        /\ IF ~Truthy(ResolveTable(o, defaultTable))
           THEN /\ pc' = "failed"
                /\ outcome' = Some(Threw(ValidationError))
                /\ providerLog' = providerLog
           ELSE /\ pc' = "queryWait"
                /\ outcome' = Absent
                /\ providerLog' = Append(providerLog, SingleInput(q))
    /\ UNCHANGED <<libVars, aiVars, calls, client, storeVars, rpcLog, results, resultSrc>>

\* line 112: the provider call throws; search rejects with what it threw
SearchEmbedThrow ==
    /\ op = "search" /\ pc = "queryWait"
    /\ \E e \in ProviderFailures : outcome' = Some(Threw(e))
    /\ pc' = "failed"
    /\ UNCHANGED <<libVars, aiVars, calls, client, storeVars, searchVars, op, options, table, providerLog>>

\* mutant: the remote call is issued twice
SearchEmbedReturn_Twice ==
    /\ op = "search" /\ pc = "queryWait"
    /\ LET call == [fn |-> rpcFunctionOf(options),
                    params |-> rpcParamsOf(options, ProviderAnswer(query), defaultThreshold, table),
                    answer |-> "pending",
                    rows |-> <<>>]
       IN  rpcLog' = rpcLog \o <<call, call>>
    /\ pc' = "rpcWait"
    /\ UNCHANGED <<libVars, aiVars, calls, client, storeVars, query, results, resultSrc, op, options,
                   table, providerLog, outcome>>

\* lines 112-133: the provider answers; the remote call is issued
SearchEmbedReturn ==
    /\ op = "search" /\ pc = "queryWait"
    /\ rpcLog' = Append(rpcLog,
           [fn |-> rpcFunctionOf(options),
            params |-> rpcParamsOf(options, ProviderAnswer(query), defaultThreshold, table),
            answer |-> "pending",
            rows |-> <<>>])
    /\ pc' = "rpcWait"
    /\ UNCHANGED <<libVars, aiVars, calls, client, storeVars, query, results, resultSrc, op, options,
                   table, providerLog, outcome>>

\* lines 133-137 and 170-178: the remote call answers with an error field, or throws
SearchRpcFail ==
    /\ op = "search" /\ pc = "rpcWait"
    /\ \E a \in {x \in RpcAnswers : x.kind \in {"error", "throws"}} :
        /\ rpcLog' = [rpcLog EXCEPT ![Len(rpcLog)].answer = a.kind]
        /\ outcome' = Some(Threw(SearchCatch(
               IF a.kind = "error" THEN SearchFailure(RpcErrorMessage)
               ELSE PlainError(RpcThrownMessage))))
    /\ pc' = "failed"
    /\ UNCHANGED <<libVars, aiVars, calls, client, storeVars, query, results, resultSrc, op, options,
                   table, providerLog>>

\* mutant: no default for a null data; mapping over it throws
SearchRpcReturn_NullFails ==
    /\ op = "search" /\ pc = "rpcWait"
    /\ \E a \in {x \in RpcAnswers : x.kind \in {"data", "null"}} :
        /\ rpcLog' = [rpcLog EXCEPT ![Len(rpcLog)].answer = a.kind,
                                    ![Len(rpcLog)].rows = a.rows]
        /\ IF a.kind = "null"
           THEN /\ pc' = "failed"
                /\ outcome' = Some(Threw(SearchCatch(PlainError("data is null"))))
                /\ UNCHANGED <<results, resultSrc>>
           ELSE /\ \E sorted \in Ordered(Selected(a.rows, options), options) :
                     LET final == Distanced(sorted, options)
                     IN  /\ results' = [k \in 1..Len(final) |-> final[k].row]
                         /\ resultSrc' = [k \in 1..Len(final) |-> final[k].src]
                /\ pc' = "done"
                /\ outcome' = Some(Returned)
    /\ UNCHANGED <<libVars, aiVars, calls, client, storeVars, query, op, options, table, providerLog>>

\* lines 133-169: the remote call answers with data (rows or null); the rows
\* are projected, sorted, given a similarity, and returned
SearchRpcReturn ==
    /\ op = "search" /\ pc = "rpcWait"
    /\ \E a \in {x \in RpcAnswers : x.kind \in {"data", "null"}} :
        /\ rpcLog' = [rpcLog EXCEPT ![Len(rpcLog)].answer = a.kind,
                                    ![Len(rpcLog)].rows = a.rows]
        /\ \E sorted \in Ordered(Selected(a.rows, options), options) :
            LET final == Distanced(sorted, options)
            IN  /\ results' = [k \in 1..Len(final) |-> final[k].row]
                /\ resultSrc' = [k \in 1..Len(final) |-> final[k].src]
    /\ pc' = "done"
    /\ outcome' = Some(Returned)
    /\ UNCHANGED <<libVars, aiVars, calls, client, storeVars, query, op, options, table, providerLog>>

Next ==
    \/ StoreCall
    \/ StoreEmbedCall
    \/ StoreEmbedReturn
    \/ StoreEmbedThrow
    \/ StoreInsertCall
    \/ StoreFinish
    \/ StoreInsertReturn
    \/ SearchCall
    \/ SearchEmbedThrow
    \/ SearchEmbedReturn
    \/ SearchRpcFail
    \/ SearchRpcReturn

Spec == Init /\ [][Next]_vars

\* every continuation that is ready runs, and every provider call, insert
\* call and remote call is answered
SpecFair == Init /\ [][Next]_vars /\ WF_vars(Next)

(***************************************************************************)
(* SupabaseAI (src/src/embeddings/utils.ts 63-133): the constructor and    *)
(* getEmbeddingsConfig. A table name is here the sequence of its pieces, a *)
(* name or " ", so that trim() has something to do; thresholds are in      *)
(* hundredths.                                                             *)
(***************************************************************************)
\* a || d: d when a is missing or is the falsy value of its type
OrElse(o, d, falsy) == IF o = Absent \/ Get(o) = falsy THEN d ELSE Get(o)

\* options.embeddings values: every property missing, falsy, or given
EmbeddingsOptions ==
    { [model |-> m, table |-> t, chunkSize |-> c, threshold |-> th] :
        m \in {Absent, Some(""), Some("text-embedding-3-large")},
        t \in {Absent, Some(<<>>), Some(<<" ", " ", " ">>),
               Some(<<"custom_documents">>), Some(<<" ", "docs">>)},
        c \in {Absent, Some(0), Some(-5), Some(500)},
        th \in {Absent, Some(0), Some(-10), Some(90), Some(100), Some(110)} }

\* SupabaseAIOptions values
AIOptions ==
    { [apiKey |-> k, embeddings |-> e] :
        k \in {Absent, Some(""), Some("test-api-key")},
        e \in {Absent} \cup {Some(x) : x \in EmbeddingsOptions} }

ConfigurationError(message) ==
    [kind |-> "ConfigurationError", prefix |-> message, detail |-> ""]

\* options.embeddings?.k
EmbeddingsProp(opts, k) == IF opts.embeddings = Absent THEN Absent ELSE Get(opts.embeddings)[k]

\* lines 74-79: the embeddings config with defaults
embeddingsConfigOf(opts) ==
    [model     |-> OrElse(EmbeddingsProp(opts, "model"), "text-embedding-3-small", ""),
     table     |-> OrElse(EmbeddingsProp(opts, "table"), <<"documents">>, <<>>),
     chunkSize |-> OrElse(EmbeddingsProp(opts, "chunkSize"), 1000, 0),
     threshold |-> OrElse(EmbeddingsProp(opts, "threshold"), 80, 0)]

\* mutant: the threshold is only checked against 0
validateOptions_NoUpperLimit(opts, config) ==
    IF opts.apiKey = Absent \/ ~Truthy(Get(opts.apiKey))
    THEN Some("API key is required")
    ELSE IF config.chunkSize <= 0
    THEN Some("chunkSize must be greater than 0")
    ELSE IF config.threshold < 0
    THEN Some("threshold must be between 0 and 1")
    ELSE IF Trim(config.table) = <<>>
    THEN Some("table cannot be empty")
    ELSE Absent

\* validateOptions (lines 94-111): the message of the ConfigurationError
\* thrown, if any
validateOptions(opts, config) ==
    IF opts.apiKey = Absent \/ ~Truthy(Get(opts.apiKey))
    THEN Some("API key is required")
    ELSE IF config.chunkSize <= 0
    THEN Some("chunkSize must be greater than 0")
    ELSE IF config.threshold < 0 \/ config.threshold > 100
    THEN Some("threshold must be between 0 and 1")
    ELSE IF Trim(config.table) = <<>>
    THEN Some("table cannot be empty")
    ELSE Absent

\* createProvider (lines 113-115)
createProvider(opts, config) == [apiKey |-> Get(opts.apiKey), model |-> config.model]

\* lines 85-91: the config handed to new EmbeddingsClient
clientConfigOf(config) ==
    [table |-> Some(config.table), chunkSize |-> Some(config.chunkSize),
     threshold |-> Some(config.threshold)]

\* before the constructor runs there is no client: its fields hold nothing
InitAI ==
    /\ defaultTable = <<>>
    /\ defaultThreshold = 0
    /\ op = "none"
    /\ pc = "idle"
    /\ data = <<>>
    /\ query = ""
    /\ options = NoOptions
    /\ table = ""
    /\ processedData = <<>>
    /\ idx = 0
    /\ i = 0
    /\ uuidCount = 0
    /\ idCalls = <<>>
    /\ providerLog = <<>>
    /\ insertLog = <<>>
    /\ rpcLog = <<>>
    /\ results = <<>>
    /\ resultSrc = <<>>
    /\ outcome = Absent
    /\ aiOptions = Absent
    /\ embeddingsConfig = Absent
    /\ aiProvider = Absent
    /\ aiEmbeddings = Absent
    /\ aiOutcome = Absent
    /\ configRead = Absent
    /\ calls = [c \in Calls |-> IdleCall]
    /\ math = NoMath
    /\ openai = NoOpenAI

\* new SupabaseAI(supabaseClient, options) (lines 69-92): the config is set
\* up, validated, and then the provider and the EmbeddingsClient are made
NewSupabaseAI ==
    /\ aiOutcome = Absent
    /\ \E o \in AIOptions :
        LET config == embeddingsConfigOf(o)
            invalid == validateOptions(o, config)
        IN  /\ aiOptions' = Some(o)
            /\ embeddingsConfig' = Some(config)
            /\ IF invalid # Absent
               THEN /\ aiOutcome' = Some(Threw(ConfigurationError(Get(invalid))))
                    /\ UNCHANGED <<aiProvider, aiEmbeddings, client>>
               ELSE /\ aiProvider' = Some(createProvider(o, config))
                    /\ aiEmbeddings' = Some(clientConfigOf(config))
                    /\ defaultTable' = ConstructTable(clientConfigOf(config))
                    /\ defaultThreshold' = ConstructThreshold(clientConfigOf(config))
                    /\ aiOutcome' = Some(Returned)
    /\ UNCHANGED <<op, pc, options, table, providerLog, outcome, storeVars,
                   searchVars, configRead, calls, libVars>>

\* getEmbeddingsConfig() (lines 126-128) on a constructed instance
getEmbeddingsConfig ==
    /\ aiOutcome = Some(Returned)
    /\ configRead' = embeddingsConfig
    /\ UNCHANGED <<client, op, pc, options, table, providerLog, outcome, storeVars,
                   searchVars, aiOptions, embeddingsConfig, aiProvider, aiEmbeddings,
                   aiOutcome, calls, libVars>>

NextAI ==
    \/ NewSupabaseAI
    \/ getEmbeddingsConfig

SpecAI == InitAI /\ [][NextAI]_vars

(***************************************************************************)
(* Concurrent calls on one client. Every await of store and search         *)
(* (EmbeddingsClient.ts lines 66, 92, 112, 133) is a point where another   *)
(* call may run; a call's locals are its own, the client's fields and the  *)
(* identity generator are shared. The steps are those of Spec, taken by    *)
(* either call.                                                            *)
(***************************************************************************)
\* the state of the single call of Spec, the identity generator apart
soloVars == <<op, pc, data, query, options, table, processedData, idx, i, idCalls,
              providerLog, insertLog, rpcLog, results, resultSrc, outcome>>

ConcData ==
    { <<[content |-> "c1"], [pageContent |-> "p4", metadata |-> "m2"]>>,
      <<[content |-> "c2", id |-> "a", metadata |-> "m1"]>> }

ConcStoreOptions ==
    { [NoOptions EXCEPT !.table = t, !.batchSize = b, !.generateId = g] :
        t \in {Absent, Some("custom")}, b \in {Absent, Some(1)},
        g \in {Absent, Some(TRUE)} }

ConcQueries == {"q1", "q2"}

ConcSearchOptions ==
    { [NoOptions EXCEPT !.table = t, !.orderBy = o] :
        t \in {Absent, Some("custom")}, o \in {Absent, Some("created_at")} }

ConcRpcAnswers ==
    { [kind |-> "data",
       rows |-> <<[id |-> "1", content |-> "x", similarity |-> 90, created_at |-> 2],
                  [id |-> "2", content |-> "y", similarity |-> 70, created_at |-> 1]>>],
      [kind |-> "data",
       rows |-> <<[id |-> "4", content |-> "w", similarity |-> 50]>>],
      [kind |-> "error", rows |-> <<>>] }

\* mutant: processedData is a field of the client, which every call pushes to
RecordsOf_Shared(all, c) == all["A"].processedData \o all["B"].processedData

\* line 60: processedData is a local of the call
RecordsOf(all, c) == all[c].processedData

\* lines 48-60
ConcStoreCall ==
    \E c \in Calls :
        /\ calls[c].pc = "idle"
        /\ \E d \in ConcData, o \in ConcStoreOptions :
            LET tbl == ResolveTable(o, defaultTable)
                started == [calls[c] EXCEPT !.op = "store", !.data = d,
                                            !.options = o, !.table = tbl]
            IN  calls' = [calls EXCEPT ![c] =
                    IF ~Truthy(tbl)
                    THEN [started EXCEPT !.pc = "failed",
                                         !.outcome = Some(Threw(ValidationError))]
                    ELSE [started EXCEPT !.pc = AfterItem(0, Len(d))]]
        /\ UNCHANGED <<libVars, aiVars, client, soloVars, uuidCount>>

\* lines 62-66
ConcStoreEmbedCall ==
    \E c \in Calls :
        /\ calls[c].op = "store" /\ calls[c].pc = "embed"
        /\ calls' = [calls EXCEPT
               ![c].provided = Append(@,
                   SingleInput(normalizeStoreInput(calls[c].data[calls[c].idx + 1]).content)),
               ![c].pc = "embedWait"]
        /\ UNCHANGED <<libVars, aiVars, client, soloVars, uuidCount>>

\* lines 66-87
ConcStoreEmbedReturn ==
    \E c \in Calls :
        /\ calls[c].op = "store" /\ calls[c].pc = "embedWait"
        /\ LET me == calls[c]
               n == normalizeStoreInput(me.data[me.idx + 1])
               generateIds == generateIdsOf(me.options)
           IN  /\ calls' = [calls EXCEPT
                      ![c].processedData = Append(@,
                          AssembleRecord(n, ProviderAnswer(n.content), generateIds, uuidCount)),
                      ![c].idx = me.idx + 1,
                      ![c].pc = AfterItem(me.idx + 1, Len(me.data))]
               /\ uuidCount' = IF NeedsGeneratedId(n, generateIds)
                               THEN uuidCount + 1 ELSE uuidCount
        /\ UNCHANGED <<libVars, aiVars, client, soloVars>>

\* line 66: the provider call throws
ConcStoreEmbedThrow ==
    \E c \in Calls :
        /\ calls[c].op = "store" /\ calls[c].pc = "embedWait"
        /\ \E e \in ProviderFailures :
            calls' = [calls EXCEPT ![c].pc = "failed", ![c].outcome = Some(Threw(e))]
        /\ UNCHANGED <<libVars, aiVars, client, soloVars, uuidCount>>

\* lines 89-92
ConcStoreInsertCall ==
    \E c \in Calls :
        /\ calls[c].op = "store" /\ calls[c].pc = "insert"
        /\ InsertLoopRuns(calls[c].i, RecordsOf(calls, c))
        /\ calls' = [calls EXCEPT
               ![c].inserts = Append(@,
                   [table |-> calls[c].table,
                    rows |-> Batch(RecordsOf(calls, c), calls[c].i,
                                   batchSizeOf(calls[c].options)),
                    answer |-> "pending"]),
               ![c].pc = "insertWait"]
        /\ UNCHANGED <<libVars, aiVars, client, soloVars, uuidCount>>

\* line 89: the loop test fails
ConcStoreFinish ==
    \E c \in Calls :
        /\ calls[c].op = "store" /\ calls[c].pc = "insert"
        /\ ~InsertLoopRuns(calls[c].i, RecordsOf(calls, c))
        /\ calls' = [calls EXCEPT ![c].pc = "done", ![c].outcome = Some(Returned)]
        /\ UNCHANGED <<libVars, aiVars, client, soloVars, uuidCount>>

\* lines 92-100
ConcStoreInsertReturn ==
    \E c \in Calls :
        /\ calls[c].op = "store" /\ calls[c].pc = "insertWait"
        /\ \E a \in InsertAnswers :
            LET next == AfterInsert(a, calls[c].i, batchSizeOf(calls[c].options))
            IN  calls' = [calls EXCEPT
                    ![c].inserts = [@ EXCEPT ![Len(@)].answer = a.kind],
                    ![c].i = next.i,
                    ![c].pc = next.pc,
                    ![c].outcome = next.outcome]
        /\ UNCHANGED <<libVars, aiVars, client, soloVars, uuidCount>>

\* lines 103-112
ConcSearchCall ==
    \E c \in Calls :
        /\ calls[c].pc = "idle"
        /\ \E q \in ConcQueries, o \in ConcSearchOptions :
            LET tbl == ResolveTable(o, defaultTable)
                started == [calls[c] EXCEPT !.op = "search", !.query = q,
                                            !.options = o, !.table = tbl]
            IN  calls' = [calls EXCEPT ![c] =
                    IF ~Truthy(tbl)
                    THEN [started EXCEPT !.pc = "failed",
                                         !.outcome = Some(Threw(ValidationError))]
                    ELSE [started EXCEPT !.pc = "queryWait",
                                         !.provided = Append(@, SingleInput(q))]]
        /\ UNCHANGED <<libVars, aiVars, client, soloVars, uuidCount>>

\* line 112: the provider call throws
ConcSearchEmbedThrow ==
    \E c \in Calls :
        /\ calls[c].op = "search" /\ calls[c].pc = "queryWait"
        /\ \E e \in ProviderFailures :
            calls' = [calls EXCEPT ![c].pc = "failed", ![c].outcome = Some(Threw(e))]
        /\ UNCHANGED <<libVars, aiVars, client, soloVars, uuidCount>>

\* lines 112-133
ConcSearchEmbedReturn ==
    \E c \in Calls :
        /\ calls[c].op = "search" /\ calls[c].pc = "queryWait"
        /\ calls' = [calls EXCEPT
               ![c].rpcs = Append(@,
                   [fn |-> rpcFunctionOf(calls[c].options),
                    params |-> rpcParamsOf(calls[c].options, ProviderAnswer(calls[c].query),
                                           defaultThreshold, calls[c].table),
                    answer |-> "pending",
                    rows |-> <<>>]),
               ![c].pc = "rpcWait"]
        /\ UNCHANGED <<libVars, aiVars, client, soloVars, uuidCount>>

\* lines 133-137 and 170-178
ConcSearchRpcFail ==
    \E c \in Calls :
        /\ calls[c].op = "search" /\ calls[c].pc = "rpcWait"
        /\ \E a \in {x \in ConcRpcAnswers : x.kind = "error"} :
            calls' = [calls EXCEPT
                ![c].rpcs = [@ EXCEPT ![Len(@)].answer = a.kind],
                ![c].pc = "failed",
                ![c].outcome = Some(Threw(SearchCatch(SearchFailure(RpcErrorMessage))))]
        /\ UNCHANGED <<libVars, aiVars, client, soloVars, uuidCount>>

\* lines 133-169
ConcSearchRpcReturn ==
    \E c \in Calls :
        /\ calls[c].op = "search" /\ calls[c].pc = "rpcWait"
        /\ \E a \in {x \in ConcRpcAnswers : x.kind = "data"} :
            \E sorted \in Ordered(Selected(a.rows, calls[c].options), calls[c].options) :
                LET final == Distanced(sorted, calls[c].options)
                IN  calls' = [calls EXCEPT
                        ![c].rpcs = [@ EXCEPT ![Len(@)].answer = a.kind,
                                              ![Len(@)].rows = a.rows],
                        ![c].results = [k \in 1..Len(final) |-> final[k].row],
                        ![c].resultSrc = [k \in 1..Len(final) |-> final[k].src],
                        ![c].pc = "done",
                        ![c].outcome = Some(Returned)]
        /\ UNCHANGED <<libVars, aiVars, client, soloVars, uuidCount>>

NextConc ==
    \/ ConcStoreCall
    \/ ConcStoreEmbedCall
    \/ ConcStoreEmbedReturn
    \/ ConcStoreEmbedThrow
    \/ ConcStoreInsertCall
    \/ ConcStoreFinish
    \/ ConcStoreInsertReturn
    \/ ConcSearchCall
    \/ ConcSearchEmbedThrow
    \/ ConcSearchEmbedReturn
    \/ ConcSearchRpcFail
    \/ ConcSearchRpcReturn

SpecConc == Init /\ [][NextConc]_vars

(***************************************************************************)
(* Vector functions (src/src/embeddings/utils.ts 39-55 and the further     *)
(* functions of the same file in src/README.md 376-418) and                *)
(* EmbeddingsClient.similarity. A vector is a sequence of integers. A      *)
(* number a function returns is kept exact: dot products as integers, a    *)
(* quotient by square roots as its numerator and the product under the     *)
(* root, a square root as what is under it.                                *)
(***************************************************************************)
Components == {-1, 0, 2}

Vectors == SeqsUpTo(Components, MaxDim)

LengthMismatch == PlainError("Vectors must have the same length")

ReturnedValue(v) == [kind |-> "returned", value |-> v]

\* the loop of lines 48-52: the sum of a[i] * b[i] over the first n indices
RECURSIVE SumProducts(_, _, _)
SumProducts(a, b, n) == IF n = 0 THEN 0 ELSE SumProducts(a, b, n - 1) + a[n] * b[n]

\* line 54: dotProduct / (Math.sqrt(normA) * Math.sqrt(normB)); 0 / 0 is NaN
Quotient(dot, normA, normB) ==
    IF normA * normB = 0 THEN [kind |-> "NaN", num |-> 0, under |-> 0]
    ELSE [kind |-> "quotient", num |-> dot, under |-> normA * normB]

\* mutant: no length test; a component read past the end is undefined and
\* the sums become NaN
cosineSimilarity_NoLengthTest(a, b) ==
    IF Len(a) # Len(b)
    THEN ReturnedValue([kind |-> "NaN", num |-> 0, under |-> 0])
    ELSE ReturnedValue(Quotient(SumProducts(a, b, Len(a)), SumProducts(a, a, Len(a)),
                                SumProducts(b, b, Len(a))))

\* cosineSimilarity (utils.ts 39-55)
cosineSimilarity(a, b) ==
    IF Len(a) # Len(b) THEN Threw(LengthMismatch)
    ELSE ReturnedValue(Quotient(SumProducts(a, b, Len(a)), SumProducts(a, a, Len(a)),
                                SumProducts(b, b, Len(a))))

\* the loop of euclideanDistance: the sum of (a[i] - b[i])^2
RECURSIVE SumSquaredDifferences(_, _, _)
SumSquaredDifferences(a, b, n) ==
    IF n = 0 THEN 0
    ELSE SumSquaredDifferences(a, b, n - 1) + (a[n] - b[n]) * (a[n] - b[n])

\* euclideanDistance (README.md 393-404)
euclideanDistance(a, b) ==
    IF Len(a) # Len(b) THEN Threw(LengthMismatch)
    ELSE ReturnedValue([kind |-> "sqrt", num |-> 1,
                        under |-> SumSquaredDifferences(a, b, Len(a))])

\* dotProduct (README.md 406-417)
dotProduct(a, b) ==
    IF Len(a) # Len(b) THEN Threw(LengthMismatch)
    ELSE ReturnedValue([kind |-> "integer", num |-> SumProducts(a, b, Len(a)), under |-> 1])

\* a call of cosineSimilarity
CosineSimilarityCall ==
    /\ math.op = "none"
    /\ \E a, b \in Vectors :
        math' = [math EXCEPT !.op = "cosineSimilarity", !.pc = "done", !.a = a, !.b = b,
                             !.outcome = Some(cosineSimilarity(a, b))]
    /\ UNCHANGED <<aiVars, calls, client, soloVars, uuidCount, openai>>

\* a call of euclideanDistance
EuclideanDistanceCall ==
    /\ math.op = "none"
    /\ \E a, b \in Vectors :
        math' = [math EXCEPT !.op = "euclideanDistance", !.pc = "done", !.a = a, !.b = b,
                             !.outcome = Some(euclideanDistance(a, b))]
    /\ UNCHANGED <<aiVars, calls, client, soloVars, uuidCount, openai>>

\* a call of dotProduct
DotProductCall ==
    /\ math.op = "none"
    /\ \E a, b \in Vectors :
        math' = [math EXCEPT !.op = "dotProduct", !.pc = "done", !.a = a, !.b = b,
                             !.outcome = Some(dotProduct(a, b))]
    /\ UNCHANGED <<aiVars, calls, client, soloVars, uuidCount, openai>>

Texts == {"x", "y"}

\* a provider call with an array of strings as its input
ArrayInput(texts) == [shape |-> "array", texts |-> texts]

\* mutant: the first vector is compared with itself
similarityOf_FirstTwice(embeddings) == cosineSimilarity(embeddings[1], embeddings[1])

\* line 183: cosineSimilarity(embeddings[0], embeddings[1])
similarityOf(embeddings) == cosineSimilarity(embeddings[1], embeddings[2])

\* lines 181-182: similarity(text1, text2) calls the provider with [text1, text2]
SimilarityCall ==
    /\ math.op = "none"
    /\ \E text1, text2 \in Texts :
        math' = [math EXCEPT !.op = "similarity", !.pc = "wait",
                             !.texts = <<text1, text2>>,
                             !.provided = Append(@, ArrayInput(<<text1, text2>>))]
    /\ UNCHANGED <<aiVars, calls, client, soloVars, uuidCount, openai>>

\* lines 182-183: the provider answers with two vectors; their cosine
\* similarity is returned, or its error thrown
SimilarityReturn ==
    /\ math.op = "similarity" /\ math.pc = "wait"
    /\ \E first, second \in Vectors :
        math' = [math EXCEPT !.pc = "done", !.a = first, !.b = second,
                             !.outcome = Some(similarityOf(<<first, second>>))]
    /\ UNCHANGED <<aiVars, calls, client, soloVars, uuidCount, openai>>

\* line 182: the provider call throws; similarity rejects with what it threw
SimilarityThrow ==
    /\ math.op = "similarity" /\ math.pc = "wait"
    /\ \E e \in ProviderFailures :
        math' = [math EXCEPT !.pc = "done", !.outcome = Some(Threw(e))]
    /\ UNCHANGED <<aiVars, calls, client, soloVars, uuidCount, openai>>

NextMath ==
    \/ CosineSimilarityCall
    \/ EuclideanDistanceCall
    \/ DotProductCall
    \/ SimilarityCall
    \/ SimilarityReturn
    \/ SimilarityThrow

SpecMath == Init /\ [][NextMath]_vars

(***************************************************************************)
(* OpenAIProvider (src/unnamed/part_001 40-78): the constructor and        *)
(* createEmbedding, with the calls of client.embeddings.create in a log.   *)
(***************************************************************************)
ProviderModels == {"text-embedding-3-small", "text-embedding-3-large"}

\* constructor: the dimensions that go with the model
dimensionsOf(model) == IF model = "text-embedding-3-large" THEN 3072 ELSE 1536

\* CreateOptions values
CreateOptions ==
    { [model |-> m, dimensions |-> d] :
        m \in {Absent, Some("text-embedding-ada-002"), Some("text-embedding-3-large")},
        d \in {Absent, Some(256), Some(512)} }

\* the input argument: a string, or an array of strings
CreateInputs == {SingleInput("x"), ArrayInput(<<"x", "y">>)}

\* what client.embeddings.create may do: answer with data, answer with
\* something that has no data, or throw
RemoteFailureMessages == {"Rate limit exceeded", "API Error"}

EmbeddingProviderError(message, providerName) ==
    [kind |-> "EmbeddingProviderError", prefix |-> "OpenAI embedding error: ",
     detail |-> message, provider |-> providerName]

\* the request createEmbedding sends
requestOf(instance, input, opts) ==
    [model |-> Nullish(opts.model, instance.model),
     input |-> input.texts,
     dimensions |-> Nullish(opts.dimensions, instance.dimensions)]

\* new OpenAIProvider(apiKey, model)
NewOpenAIProvider ==
    /\ openai.pc = "none"
    /\ \E m \in ProviderModels :
        openai' = [openai EXCEPT !.pc = "idle", !.model = m, !.dimensions = dimensionsOf(m)]
    /\ UNCHANGED <<aiVars, calls, client, soloVars, uuidCount, math>>

\* createEmbedding up to its await: the one remote call is issued
CreateEmbeddingCall ==
    /\ openai.pc = "idle"
    /\ \E input \in CreateInputs, opts \in CreateOptions :
        openai' = [openai EXCEPT !.pc = "wait",
                                 !.remote = Append(@, requestOf(openai, input, opts))]
    /\ UNCHANGED <<aiVars, calls, client, soloVars, uuidCount, math>>

\* the remote call answers with one embedding per input; they are returned
CreateEmbeddingReturn ==
    /\ openai.pc = "wait"
    /\ openai' = [openai EXCEPT !.pc = "done", !.outcome = Some(Returned)]
    /\ UNCHANGED <<aiVars, calls, client, soloVars, uuidCount, math>>

\* mutant: a failed remote call is tried once more
CreateEmbeddingThrow_Retries ==
    /\ openai.pc = "wait"
    /\ IF Len(openai.remote) < 2
       THEN openai' = [openai EXCEPT !.remote = Append(@, openai.remote[1])]
       ELSE \E message \in RemoteFailureMessages :
               openai' = [openai EXCEPT !.pc = "failed",
                   !.outcome = Some(Threw(EmbeddingProviderError(message, "openai")))]
    /\ UNCHANGED <<aiVars, calls, client, soloVars, uuidCount, math>>

\* the remote call throws, or answers with something whose data cannot be
\* mapped: the catch block wraps the error
CreateEmbeddingThrow ==
    /\ openai.pc = "wait"
    /\ \E message \in RemoteFailureMessages \cup {"Cannot read properties of undefined"} :
        openai' = [openai EXCEPT !.pc = "failed",
            !.outcome = Some(Threw(EmbeddingProviderError(message, "openai")))]
    /\ UNCHANGED <<aiVars, calls, client, soloVars, uuidCount, math>>

NextProvider ==
    \/ NewOpenAIProvider
    \/ CreateEmbeddingCall
    \/ CreateEmbeddingReturn
    \/ CreateEmbeddingThrow

SpecProvider == Init /\ [][NextProvider]_vars

(***************************************************************************)
(* What the claims speak of, stated apart from the operators above.        *)
(***************************************************************************)
\* the text of an input item: pageContent of a LangChain document, else content
TextOf(item) == IF "pageContent" \in DOMAIN item THEN item.pageContent ELSE item.content

\* the table a call names: the one in its options, else the instance default
NamedTable == IF options.table = Absent THEN defaultTable ELSE Get(options.table)

\* no table is resolvable: empty in the options, or none there and an empty default
NoTableNamed ==
    \/ options.table = Some("")
    \/ options.table = Absent /\ defaultTable = ""

\* the batch size a store call asks for: the option, else 100
AskedBatchSize == IF options.batchSize = Absent THEN 100 ELSE Get(options.batchSize)

CeilDiv(n, b) == (n + b - 1) \div b

Min(a, b) == IF a < b THEN a ELSE b

\* the j-th of the consecutive chunks of b records
Chunk(records, j, b) == SubSeq(records, (j - 1) * b + 1, Min(j * b, Len(records)))

\* the rows of the insert calls, one after the other in call order
RECURSIVE RowsSent(_)
RowsSent(log) == IF log = <<>> THEN <<>> ELSE log[1].rows \o RowsSent(Tail(log))

Failed == outcome # Absent /\ Get(outcome).kind = "threw"
FailedWith(kind) == Failed /\ Get(outcome).error.kind = kind

\* the rows the remote similarity call answered with
RemoteAnswer == rpcLog[1].rows

\* C1: if an insert call of store reports an error on chunk k, store fails
\* with a DatabaseError whose message starts with "Failed to store
\* embeddings:", the insert calls for chunks 1..k-1 have been issued and have
\* succeeded, in order, and no insert call is issued after the k-th, in any
\* later state.
C1_InsertErrorStopsStore ==
    op = "store" =>
        \A k \in 1..Len(insertLog) :
            insertLog[k].answer = "error" =>
                /\ pc = "failed"
                /\ FailedWith("DatabaseError")
                /\ Get(outcome).error.prefix = "Failed to store embeddings: "
                /\ k = Len(insertLog)
                /\ \A j \in 1..(k - 1) : insertLog[j].answer = "ok"
                /\ AskedBatchSize >= 1 =>
                       \A j \in 1..k :
                           insertLog[j].rows = Chunk(processedData, j, AskedBatchSize)

\* C1 witness: with three records and batchSize 1 the second insert reports
\* an error; the third chunk is never sent
C1_Witness ==
    /\ op = "store" /\ pc = "failed"
    /\ options.batchSize = Some(1)
    /\ Len(processedData) = 3
    /\ Len(insertLog) = 2
    /\ insertLog[1].answer = "ok"
    /\ insertLog[2].answer = "error"

\* C2: for n input documents and a batchSize b >= 1 (100 when not given), a
\* store call that returns has issued exactly ceil(n/b) insert calls, all on
\* the resolved table; every call carries at most b records, every call but
\* the last exactly b, and the rows of the calls, taken in call order, are the
\* records of the documents in input order.
C2_BatchesPartitionRecords ==
    (op = "store" /\ pc = "done" /\ AskedBatchSize >= 1) =>
        /\ Len(insertLog) = CeilDiv(Len(data), AskedBatchSize)
        /\ \A k \in 1..Len(insertLog) :
            /\ insertLog[k].table = NamedTable
            /\ insertLog[k].answer = "ok"
            /\ Len(insertLog[k].rows) <= AskedBatchSize
            /\ Len(insertLog[k].rows) >= 1
            /\ k < Len(insertLog) => Len(insertLog[k].rows) = AskedBatchSize
        /\ RowsSent(insertLog) = processedData
        /\ Len(processedData) = Len(data)
        /\ \A k \in 1..Len(data) : processedData[k].content = TextOf(data[k])

\* C2 witness: three documents with batchSize 2 are sent as 2 rows, then 1
C2_Witness ==
    /\ op = "store" /\ pc = "done"
    /\ Len(data) = 3
    /\ options.batchSize = Some(2)
    /\ Len(insertLog) = 2
    /\ Len(insertLog[1].rows) = 2
    /\ Len(insertLog[2].rows) = 1

\* C3 as stated: store called with an empty input sequence performs zero
\* provider calls and zero insert calls and never fails, for every options
\* value and every instance default table.
C3_EmptyStoreNeverFails ==
    (op = "store" /\ data = <<>>) =>
        /\ providerLog = <<>>
        /\ insertLog = <<>>
        /\ ~Failed

\* C3 as amended: store called with an empty input sequence performs zero
\* provider calls and zero insert calls for every options value and every
\* instance default table; it returns without error when a table is
\* resolvable, and fails with the ValidationError when none is.
C3_EmptyStoreNoCalls ==
    (op = "store" /\ data = <<>>) =>
        /\ providerLog = <<>>
        /\ insertLog = <<>>
        /\ NoTableNamed => pc = "failed" /\ FailedWith("ValidationError")
        /\ ~NoTableNamed =>
            /\ ~Failed
            /\ pc \in {"insert", "done"}
            /\ pc = "insert" => i >= Len(processedData)
            /\ pc = "done" => outcome = Some(Returned)

\* C3 witness: an empty store with batchSize 0 on a named table has returned
C3_Witness ==
    /\ op = "store" /\ data = <<>>
    /\ pc = "done" /\ outcome = Some(Returned)
    /\ options.batchSize = Some(0)
    /\ options.table = Some("custom")

\* C4: for every input document that supplies an id, the persisted record's
\* id is the supplied value and the identity generator is not invoked for
\* that record, whether generateId is true, false or omitted.
C4_SuppliedIdKept ==
    op = "store" =>
        \A k \in 1..Len(processedData) :
            "id" \in DOMAIN data[k] =>
                /\ "id" \in DOMAIN processedData[k]
                /\ processedData[k].id = data[k].id
                /\ ~idCalls[k]

\* C5: for every input document with no id, when generateId is false or
\* omitted the record built for it, and the row sent to the backing store for
\* it, has no id key.
C5_NoIdKeyWithoutGeneration ==
    (op = "store" /\ options.generateId \in {Absent, Some(FALSE)}) =>
        /\ \A k \in 1..Len(processedData) :
               "id" \notin DOMAIN data[k] => "id" \notin DOMAIN processedData[k]
        /\ Len(RowsSent(insertLog)) <= Len(data)
        /\ \A k \in 1..Len(RowsSent(insertLog)) :
               "id" \notin DOMAIN data[k] => "id" \notin DOMAIN RowsSent(insertLog)[k]

\* C5 witness: a store with generateId false has sent the row of a document
\* that has no id
C5_Witness ==
    /\ op = "store" /\ pc = "done"
    /\ options.generateId = Some(FALSE)
    /\ Len(data) >= 1
    /\ "id" \notin DOMAIN data[1]
    /\ Len(RowsSent(insertLog)) >= 1
    /\ "id" \notin DOMAIN RowsSent(insertLog)[1]

\* C6: in one store call with generateId true, every input document with no
\* id gets an id from the generator in its record, and the ids generated for
\* different documents differ.
C6_GeneratedIdsDistinct ==
    (op = "store" /\ options.generateId = Some(TRUE)) =>
        \A k \in 1..Len(processedData) :
            "id" \notin DOMAIN data[k] =>
                /\ idCalls[k]
                /\ "id" \in DOMAIN processedData[k]
                /\ \E u \in 1..Len(UUIDs) : processedData[k].id = UUIDs[u]
                /\ \A l \in 1..Len(processedData) :
                       (l # k /\ "id" \notin DOMAIN data[l]) =>
                           processedData[l].id # processedData[k].id

\* C6 witness: a finished store with generateId true over three documents
\* without id
C6_Witness ==
    /\ op = "store" /\ pc = "done"
    /\ options.generateId = Some(TRUE)
    /\ Len(data) = 3
    /\ \A k \in 1..3 : "id" \notin DOMAIN data[k]
    /\ RowsSent(insertLog) = processedData

\* C7: store and search called when no table is resolvable fail with a
\* ValidationError whose message contains "Table name is required", and no
\* provider call, insert call or remote similarity call is issued for the call.
C7_NoTableFailsBeforeCalls ==
    (op \in {"store", "search"} /\ NoTableNamed) =>
        /\ pc = "failed"
        /\ FailedWith("ValidationError")
        /\ Get(outcome).error.prefix = "Table name is required"
        /\ providerLog = <<>>
        /\ insertLog = <<>>
        /\ rpcLog = <<>>

\* C7 witness: a search whose options give the empty table on a client whose
\* default table is not empty
C7_Witness ==
    /\ op = "search" /\ pc = "failed"
    /\ options.table = Some("")
    /\ defaultTable = "docs"

\* C8: for a store call over n items of any mix of shapes, the provider calls
\* are, in order, one per item with the item's text as a single string; all n
\* have been made once the embedding loop is over.
C8_OneProviderCallPerItem ==
    op = "store" =>
        /\ Len(providerLog) <= Len(data)
        /\ \A k \in 1..Len(providerLog) :
               providerLog[k] = [shape |-> "string", texts |-> <<TextOf(data[k])>>]
        /\ Len(providerLog) >= idx
        /\ (pc \in {"insert", "insertWait", "done"} \/ insertLog # <<>>) =>
               Len(providerLog) = Len(data)

\* C8 witness: a finished store over a LangChain document followed by a
\* native one
C8_Witness ==
    /\ op = "store" /\ pc = "done"
    /\ Len(data) = 2
    /\ "pageContent" \in DOMAIN data[1]
    /\ "content" \in DOMAIN data[2]
    /\ Len(providerLog) = 2

\* C9: with includeDistance true, every result of search carries a
\* similarity, whatever select and orderBy are: the remote row's similarity
\* when the remote row included one, and 0 when it did not.
C9_SimilarityOfRemoteRow ==
    (op = "search" /\ pc = "done" /\ options.includeDistance = Some(TRUE)) =>
        \A k \in 1..Len(results) :
            /\ "similarity" \in DOMAIN results[k]
            /\ results[k].similarity =
                   IF "similarity" \in DOMAIN RemoteAnswer[resultSrc[k]]
                   THEN RemoteAnswer[resultSrc[k]].similarity
                   ELSE 0

\* C10: search with an orderBy that is given and is not 'similarity' returns
\* the remote rows in an order in which no result's value of that field is
\* greater than the next result's, so ascending when every result has the
\* field, for every order in which the remote call returned them.
C10_SortedAscending ==
    (op = "search" /\ pc = "done" /\ options.orderBy # Absent
        /\ Get(options.orderBy) \notin {"", "similarity"}) =>
        LET f == Get(options.orderBy)
            n == Len(results)
        IN  /\ n = Len(RemoteAnswer)
            /\ \A a \in 1..n : \E k \in 1..n : resultSrc[k] = a
            /\ \A k \in 1..(n - 1) :
                   ~(f \in DOMAIN results[k] /\ f \in DOMAIN results[k + 1]
                       /\ results[k][f] > results[k + 1][f])
            /\ (\A k \in 1..n : f \in DOMAIN results[k]) =>
                   \A k, l \in 1..n : k < l => results[k][f] <= results[l][f]

\* C10 witness: the remote call returned three rows with created_at 2, 1, 2
\* and search returned them with created_at 1, 2, 2
C10_Witness ==
    /\ op = "search" /\ pc = "done"
    /\ options.orderBy = Some("created_at")
    /\ Len(results) = 3
    /\ \A k \in 1..3 : "created_at" \in DOMAIN RemoteAnswer[k]
    /\ RemoteAnswer[1].created_at = 2
    /\ RemoteAnswer[2].created_at = 1
    /\ results[1].created_at = 1
    /\ results[3].created_at = 2

\* the field names a select string lists: a name stands alone between two
\* commas (or an end of the string), with nothing but spaces around it
Listed(select) ==
    { select[p] : p \in { q \in 1..Len(select) :
        /\ select[q] \notin {",", " "}
        /\ \E a \in 1..q, b \in q..Len(select) :
            /\ a = 1 \/ select[a - 1] = ","
            /\ b = Len(select) \/ select[b + 1] = ","
            /\ \A j \in a..b : j # q => select[j] = " " } }

\* every remote row is the source of exactly one result
EveryRowOnce ==
    /\ Len(results) = Len(RemoteAnswer)
    /\ \A a \in 1..Len(RemoteAnswer) : \E k \in 1..Len(results) : resultSrc[k] = a

\* C11: search with orderBy 'similarity' or with orderBy unset returns one
\* result per remote row, the k-th result built from the k-th remote row,
\* whatever select and includeDistance are.
C11_RemoteOrderKept ==
    (op = "search" /\ pc = "done" /\ options.orderBy \in {Absent, Some("similarity")}) =>
        /\ Len(results) = Len(RemoteAnswer)
        /\ \A k \in 1..Len(results) :
            /\ resultSrc[k] = k
            /\ \A f \in DOMAIN results[k] \ {"similarity"} :
                   f \in DOMAIN RemoteAnswer[k] /\ results[k][f] = RemoteAnswer[k][f]

\* C11 witness: orderBy 'similarity' with a select and includeDistance over
\* rows the remote call returned with similarity 90, 50, 70
C11_Witness ==
    /\ op = "search" /\ pc = "done"
    /\ options.orderBy = Some("similarity")
    /\ options.select = Some(<<"id", ",", "similarity", ",", "created_at">>)
    /\ options.includeDistance = Some(TRUE)
    /\ Len(results) = 3
    /\ results[1].similarity = 90
    /\ results[2].similarity = 50
    /\ results[3].similarity = 70

\* C12 as stated: search with select given returns, for every remote row, a
\* result whose keys are exactly the listed field names present on that row,
\* with the row's values.
C12_KeysExactlyListed ==
    (op = "search" /\ pc = "done" /\ options.select # Absent) =>
        /\ EveryRowOnce
        /\ \A k \in 1..Len(results) :
            LET row == RemoteAnswer[resultSrc[k]]
            IN  /\ DOMAIN results[k] = Listed(Get(options.select)) \cap DOMAIN row
                /\ \A f \in DOMAIN results[k] : results[k][f] = row[f]

\* C12 as amended: search with a non-empty select returns, for every remote
\* row, a result whose keys are exactly the listed field names present on
\* that row, plus similarity when includeDistance is true; the kept fields
\* have the row's values.
C12_KeysListedOrSimilarity ==
    (op = "search" /\ pc = "done" /\ options.select # Absent
        /\ Get(options.select) # <<>>) =>
        /\ EveryRowOnce
        /\ \A k \in 1..Len(results) :
            LET row == RemoteAnswer[resultSrc[k]]
                kept == Listed(Get(options.select)) \cap DOMAIN row
                added == IF options.includeDistance = Some(TRUE)
                         THEN {"similarity"} ELSE {}
            IN  /\ DOMAIN results[k] = kept \cup added
                /\ \A f \in kept : results[k][f] = row[f]

\* C12 witness: select " created_at , nope" over a row without created_at
\* and a row with it gives an empty result and a result with created_at only
C12_Witness ==
    /\ op = "search" /\ pc = "done"
    /\ options.select = Some(<<" ", "created_at", " ", ",", " ", "nope">>)
    /\ options.orderBy = Absent
    /\ options.includeDistance = Absent
    /\ Len(results) = 2
    /\ DOMAIN RemoteAnswer[1] = {"id", "content", "similarity"}
    /\ DOMAIN results[1] = {}
    /\ DOMAIN results[2] = {"created_at"}

\* C13: a search whose remote call answers with an error field fails with a
\* DatabaseError "Search failed: " followed by the answer's message, and one
\* whose remote call throws fails with a DatabaseError "Search operation
\* failed: " followed by the thrown message; the first never carries the
\* second prefix.
C13_SearchErrorPrefixes ==
    (op = "search" /\ rpcLog # <<>> /\ rpcLog[1].answer \in {"error", "throws"}) =>
        /\ pc = "failed"
        /\ FailedWith("DatabaseError")
        /\ rpcLog[1].answer = "error" =>
            /\ Get(outcome).error.prefix = "Search failed: "
            /\ Get(outcome).error.detail = RpcErrorMessage
        /\ rpcLog[1].answer = "throws" =>
            /\ Get(outcome).error.prefix = "Search operation failed: "
            /\ Get(outcome).error.detail = RpcThrownMessage

\* C13 witness: a search has failed on an answer with an error field
C13_Witness ==
    /\ op = "search" /\ pc = "failed"
    /\ rpcLog # <<>>
    /\ rpcLog[1].answer = "error"
    /\ Get(outcome).error.prefix = "Search failed: "

\* the first vector the provider returns for a text
FirstVectorOf(text) == [of |-> text, n |-> 1]

\* C14: a search that has passed table validation and whose provider call
\* has returned has issued exactly one remote similarity call, to options.rpc
\* or else 'match_documents', with query_embedding the first vector of the
\* query, match_threshold options.threshold when given (0 included) else the
\* instance default, match_count options.limit when given else 10,
\* table_name the resolved table, and filters and metadata_filter exactly
\* when the option is given; before the provider returns and after a failed
\* validation there is none.
C14_OneRpcCallWithParams ==
    op = "search" =>
        /\ (pc \in {"rpcWait", "done"} \/ rpcLog # <<>>) =>
            /\ Len(rpcLog) = 1
            /\ ~NoTableNamed
            /\ rpcLog[1].fn = (IF options.rpc = Absent THEN "match_documents"
                               ELSE Get(options.rpc))
            /\ LET params == rpcLog[1].params
               IN  /\ DOMAIN params =
                          {"query_embedding", "match_threshold", "match_count", "table_name"}
                          \cup {k \in {"filters"} : options.filters # Absent}
                          \cup {k \in {"metadata_filter"} : options.metadata # Absent}
                   /\ params.query_embedding = FirstVectorOf(query)
                   /\ params.match_threshold =
                          (IF options.threshold = Absent THEN defaultThreshold
                           ELSE Get(options.threshold))
                   /\ params.match_count =
                          (IF options.limit = Absent THEN 10 ELSE Get(options.limit))
                   /\ params.table_name = NamedTable
                   /\ options.filters # Absent => params.filters = Get(options.filters)
                   /\ options.metadata # Absent =>
                          params.metadata_filter = Get(options.metadata)
        /\ pc = "queryWait" => rpcLog = <<>>

\* C14 witness: a returned search with threshold 0 on a client whose default
\* threshold is not 0, with filters and without metadata
C14_Witness ==
    /\ op = "search" /\ pc = "done"
    /\ options.threshold = Some(0)
    /\ defaultThreshold = 50
    /\ options.filters # Absent
    /\ options.metadata = Absent
    /\ Len(rpcLog) = 1
    /\ rpcLog[1].params.match_threshold = 0

\* the classes of the error taxonomy
TaxonomyKinds ==
    {"ConfigurationError", "ValidationError", "EmbeddingProviderError", "DatabaseError"}

\* C15: every failure of store and search reaches the caller as a
\* ConfigurationError, a ValidationError, an EmbeddingProviderError or a
\* DatabaseError.
C15_FailuresInTaxonomy ==
    Failed => Get(outcome).error.kind \in TaxonomyKinds

\* C19: on every path a search call issues no insert, at most one remote
\* similarity call, and no provider call besides the one for its query (so no
\* vectors to compute a similarity from); every similarity in its results is
\* the remote row's, or the default 0.
C19_SearchDoesNotWrite ==
    op = "search" =>
        /\ insertLog = <<>>
        /\ Len(rpcLog) <= 1
        /\ Len(providerLog) <= 1
        /\ \A k \in 1..Len(results) :
               "similarity" \in DOMAIN results[k] =>
                   \/ results[k].similarity = 0
                   \/ /\ "similarity" \in DOMAIN RemoteAnswer[resultSrc[k]]
                      /\ results[k].similarity = RemoteAnswer[resultSrc[k]].similarity

\* C19 witness: a search has failed on a remote call that threw, having
\* issued that one call and nothing else
C19_Witness ==
    /\ op = "search" /\ pc = "failed"
    /\ Len(rpcLog) = 1
    /\ rpcLog[1].answer = "throws"
    /\ insertLog = <<>>

\* the options a SupabaseAI was constructed with
AIGiven(k) ==
    IF Get(aiOptions).embeddings = Absent THEN Absent
    ELSE Get(Get(aiOptions).embeddings)[k]

AIConstructed == aiOutcome = Some(Returned)
AIFailed == aiOutcome # Absent /\ Get(aiOutcome).kind = "threw"
AIFailedSaying(message) ==
    /\ AIFailed
    /\ Get(aiOutcome).error.kind = "ConfigurationError"
    /\ Get(aiOutcome).error.prefix = message

\* a table name with no piece other than spaces
Blank(name) == \A k \in 1..Len(name) : name[k] = " "

AIKeyGiven == Get(aiOptions).apiKey \notin {Absent, Some("")}
AIThresholdInRange ==
    AIGiven("threshold") = Absent
    \/ (Get(AIGiven("threshold")) >= 0 /\ Get(AIGiven("threshold")) <= 100)
AITableNotBlank == AIGiven("table") = Absent \/ ~Blank(Get(AIGiven("table")))
AIChunkSizeNotNegative == AIGiven("chunkSize") = Absent \/ Get(AIGiven("chunkSize")) >= 0

\* C16: a SupabaseAI constructed with embeddings.threshold 0 has 0 as its
\* configured threshold: getEmbeddingsConfig() returns it and the
\* EmbeddingsClient has it as its default threshold.
C16_ThresholdZeroKept ==
    (AIConstructed /\ AIGiven("threshold") = Some(0)) =>
        /\ Get(embeddingsConfig).threshold = 0
        /\ Get(aiEmbeddings).threshold = Some(0)
        /\ defaultThreshold = 0
        /\ configRead # Absent => Get(configRead).threshold = 0

\* C17: constructing a SupabaseAI, with otherwise valid options, with an
\* embeddings table that is the empty string or only whitespace fails with
\* the ConfigurationError "table cannot be empty".
C17_BlankTableRejected ==
    (aiOptions # Absent /\ AIKeyGiven /\ AIThresholdInRange /\ AIChunkSizeNotNegative
        /\ AIGiven("table") # Absent /\ Blank(Get(AIGiven("table")))) =>
        AIFailedSaying("table cannot be empty")

NamedTableOf(me) ==
    IF me.options.table = Absent THEN defaultTable ELSE Get(me.options.table)

\* the rows a store call has sent are records of its own documents, in its
\* own order, on its own table
OwnRowsSent(me) ==
    LET sent == RowsSent(me.inserts)
    IN  /\ \A k \in 1..Len(me.inserts) : me.inserts[k].table = NamedTableOf(me)
        /\ Len(sent) <= Len(me.data)
        /\ me.pc = "done" => Len(sent) = Len(me.data)
        /\ \A k \in 1..Len(sent) :
            /\ sent[k].content = TextOf(me.data[k])
            /\ sent[k].embedding = FirstVectorOf(TextOf(me.data[k]))
            /\ ("id" \in DOMAIN me.data[k] /\ me.data[k].id # "") =>
                   sent[k].id = me.data[k].id
            /\ "metadata" \in DOMAIN me.data[k] => sent[k].metadata = me.data[k].metadata

\* a search call has asked for its own query on its own table, and what it
\* returned are the rows of its own remote call
OwnResults(me) ==
    /\ Len(me.rpcs) <= 1
    /\ \A k \in 1..Len(me.rpcs) :
        /\ me.rpcs[k].params.query_embedding = FirstVectorOf(me.query)
        /\ me.rpcs[k].params.table_name = NamedTableOf(me)
    /\ me.pc = "done" =>
        /\ Len(me.results) = Len(me.rpcs[1].rows)
        /\ \A a \in 1..Len(me.results) : \E k \in 1..Len(me.results) : me.resultSrc[k] = a
        /\ \A k \in 1..Len(me.results) : me.results[k] = me.rpcs[1].rows[me.resultSrc[k]]

NoInterference ==
    \A c \in Calls :
        /\ calls[c].op = "store" => OwnRowsSent(calls[c])
        /\ calls[c].op = "search" => OwnResults(calls[c])

\* C20: under every interleaving of the awaited steps of two concurrent
\* calls on one client, each store call's insert calls carry the records of
\* its own documents, in its own order, to its own table, each search call
\* returns the rows of its own remote call, and no step writes the client's
\* default table or default threshold.
C20_ConcurrentCallsIndependent ==
    /\ []NoInterference
    /\ [][client' = client]_vars

\* C20 witness: a store of two documents with batchSize 1 waits for its
\* second insert while a search on another table waits for its remote call
C20_Witness ==
    /\ calls["A"].op = "store" /\ calls["A"].pc = "insertWait"
    /\ Len(calls["A"].data) = 2
    /\ Len(calls["A"].inserts) = 2
    /\ calls["B"].op = "search" /\ calls["B"].pc = "rpcWait"
    /\ calls["A"].table # calls["B"].table

\* C21..C30 speak of one store or search call as C1..C19 do.

\* C23: a search whose remote call answers with no data and no error returns
\* the empty sequence without error, whatever select, orderBy and
\* includeDistance are.
C23_NullDataGivesEmpty ==
    (op = "search" /\ rpcLog # <<>> /\ rpcLog[1].answer = "null") =>
        /\ pc = "done"
        /\ outcome = Some(Returned)
        /\ results = <<>>

\* C23 witness: null data with a select, an orderBy that sorts and
\* includeDistance true
C23_Witness ==
    /\ op = "search" /\ pc = "done"
    /\ rpcLog[1].answer = "null"
    /\ options.select = Some(<<"id", ",", " ", "content">>)
    /\ options.orderBy = Some("created_at")
    /\ options.includeDistance = Some(TRUE)
    /\ results = <<>>

\* the provider calls of a store call that have not been answered with a
\* queued record
Outstanding == Len(providerLog) - Len(processedData)

\* C25: within one store call at most one provider call is outstanding, and
\* only while the call waits for it; a provider call is outstanding whenever
\* the call waits for one; every answered call has its record queued; no
\* insert call is issued before every document's provider call has returned.
C25_ProviderCallsSequential ==
    op = "store" =>
        /\ Outstanding \in {0, 1}
        /\ pc = "embedWait" => Outstanding = 1
        /\ (Outstanding = 1 /\ pc # "failed") => pc = "embedWait"
        /\ idx = Len(processedData)
        /\ insertLog # <<>> =>
            /\ Outstanding = 0
            /\ Len(processedData) = Len(data)

\* C25 witness: the provider call for the third document is outstanding, the
\* records of the first two are queued, no insert has been issued
C25_Witness ==
    /\ op = "store" /\ pc = "embedWait"
    /\ Len(data) = 3
    /\ Len(processedData) = 2
    /\ Len(providerLog) = 3
    /\ insertLog = <<>>

\* the value of a field on a result, {} when absent
FieldOf(row, f) == IF f \in DOMAIN row THEN {row[f]} ELSE {}

\* C26: after the sort for an orderBy that is given and is not 'similarity',
\* two results whose orderBy values are equal, or both absent, are in the
\* relative order in which the remote call returned their rows.
C26_SortStable ==
    (op = "search" /\ pc = "done" /\ options.orderBy # Absent
        /\ Get(options.orderBy) \notin {"", "similarity"}) =>
        \A k, l \in 1..Len(results) :
            (k < l /\ FieldOf(results[k], Get(options.orderBy))
                        = FieldOf(results[l], Get(options.orderBy))) =>
                resultSrc[k] < resultSrc[l]

\* C27: a store call, once made, returns or fails (or, for a negative
\* batchSize, passes the point at which the model stops following i),
\* given that every call it issues is answered.
C27_StoreTerminates ==
    (op = "store") ~> (pc \in {"done", "failed"} \/ i <= -MaxInserts)

\* C28: if a provider call of a store call fails, the store call fails with
\* what the provider threw and no insert call is issued for it, the records
\* of the documents embedded before included.
C28_ProviderFailureSendsNothing ==
    (op = "store" /\ pc = "failed" /\ Outstanding = 1) =>
        /\ Get(outcome).error \in ProviderFailures
        /\ insertLog = <<>>

\* C28 witness: the provider call for the third document failed after two
\* records had been queued
C28_Witness ==
    /\ op = "store" /\ pc = "failed"
    /\ Len(processedData) = 2
    /\ Len(providerLog) = 3
    /\ insertLog = <<>>

\* C29: for every input document of store, whatever further fields it
\* carries, the record's content is the document's text, its embedding the
\* first vector the provider returned for that text, and its metadata the
\* document's metadata, or the empty mapping.
C29_CoreFieldsNotReplaced ==
    op = "store" =>
        \A k \in 1..Len(processedData) :
            /\ processedData[k].content = TextOf(data[k])
            /\ processedData[k].embedding = FirstVectorOf(TextOf(data[k]))
            /\ processedData[k].metadata =
                   (IF "metadata" \in DOMAIN data[k] THEN data[k].metadata ELSE EmptyMap)

\* C30: for every input item that has a pageContent key, the record has no
\* key besides content, embedding, metadata and id; its content is the
\* pageContent, its metadata and id are the item's, and no other field of the
\* item, a content field included, is in the record or in the row sent.
C30_PageContentItemsNormalized ==
    op = "store" =>
        /\ \A k \in 1..Len(processedData) :
            "pageContent" \in DOMAIN data[k] =>
                /\ DOMAIN processedData[k] \subseteq {"content", "embedding", "metadata", "id"}
                /\ processedData[k].content = data[k].pageContent
                /\ "metadata" \in DOMAIN data[k] =>
                       processedData[k].metadata = data[k].metadata
                /\ ("id" \in DOMAIN data[k] /\ data[k].id # "" ) =>
                       processedData[k].id = data[k].id
        /\ AskedBatchSize >= 1 =>
            \A k \in 1..Len(RowsSent(insertLog)) :
                RowsSent(insertLog)[k] = processedData[k]

\* C30 witness: a finished store whose first item has a pageContent, a
\* content and a further field; the row sent has the pageContent as content
C30_Witness ==
    /\ op = "store" /\ pc = "done"
    /\ Len(data) >= 1
    /\ {"pageContent", "content", "source"} \subseteq DOMAIN data[1]
    /\ Len(RowsSent(insertLog)) >= 1
    /\ RowsSent(insertLog)[1].content = data[1].pageContent

\* C21: similarity(text1, text2) makes exactly one provider call, with the
\* array [text1, text2]; when the provider has answered it has returned the
\* cosine similarity of the first and the second vector of the answer if they
\* are equally long, and has failed with the length-mismatch error, returning
\* no number, if they are not.
C21_SimilarityOfTheTwoVectors ==
    math.op = "similarity" =>
        /\ math.provided = <<[shape |-> "array", texts |-> math.texts]>>
        /\ Len(math.texts) = 2
        /\ (math.pc = "done" /\ Get(math.outcome) \notin {Threw(e) : e \in ProviderFailures}) =>
            IF Len(math.a) = Len(math.b)
            THEN Get(math.outcome) = cosineSimilarity(math.a, math.b)
                 /\ Get(math.outcome).kind = "returned"
            ELSE Get(math.outcome) = Threw(PlainError("Vectors must have the same length"))

\* C21 witness: similarity over the answer <<2, 0>>, <<2, 2>> has returned
\* 4 / sqrt(4 * 8)
C21_Witness ==
    /\ math.op = "similarity" /\ math.pc = "done"
    /\ math.a = <<2, 0>> /\ math.b = <<2, 2>>
    /\ math.outcome = Some([kind |-> "returned",
                            value |-> [kind |-> "quotient", num |-> 4, under |-> 32]])

\* C22: a createEmbedding call makes at most one remote call; when the remote
\* call fails it has made exactly one and fails with an EmbeddingProviderError
\* whose provider is 'openai' and whose message wraps the remote one; no step
\* of the call changes the instance's model or dimensions.
C22_ProviderFailsOnceWrapped ==
    /\ [](/\ Len(openai.remote) <= 1
          /\ openai.pc = "failed" =>
              /\ Len(openai.remote) = 1
              /\ Get(openai.outcome).kind = "threw"
              /\ Get(openai.outcome).error.kind = "EmbeddingProviderError"
              /\ Get(openai.outcome).error.provider = "openai"
              /\ Get(openai.outcome).error.prefix = "OpenAI embedding error: "
              /\ Get(openai.outcome).error.detail
                     \in {"Rate limit exceeded", "API Error", "Cannot read properties of undefined"})
    /\ [][openai.pc # "none" =>
             (openai'.model = openai.model /\ openai'.dimensions = openai.dimensions)]_vars

\* C22 witness: a call with a model and dimensions of its own, on a provider
\* for text-embedding-3-small, has failed after its one remote call
C22_Witness ==
    /\ openai.pc = "failed"
    /\ openai.model = "text-embedding-3-small"
    /\ openai.dimensions = 1536
    /\ Len(openai.remote) = 1
    /\ openai.remote[1].model = "text-embedding-3-large"
    /\ openai.remote[1].dimensions = 256

\* C24: called with vectors of unequal length, cosineSimilarity,
\* euclideanDistance and dotProduct fail with the length-mismatch error and
\* return no value; called with vectors of equal length they return one.
C24_LengthMismatchFails ==
    math.op \in {"cosineSimilarity", "euclideanDistance", "dotProduct"} =>
        /\ Len(math.a) # Len(math.b) =>
               math.outcome = Some(Threw(PlainError("Vectors must have the same length")))
        /\ Len(math.a) = Len(math.b) => Get(math.outcome).kind = "returned"

\* C24 witness: euclideanDistance of a vector of one and a vector of two
\* components has thrown
C24_Witness ==
    /\ math.op = "euclideanDistance"
    /\ Len(math.a) = 1 /\ Len(math.b) = 2
    /\ Get(math.outcome).kind = "threw"

====
